---- MODULE Spec2Model ----
\* Sections of the pattern language evaluator: ProviderSection, InMemorySection,
\* ZerosSection and ViewSection (lib/include/pl/core/sections.hpp,
\* lib/source/pl/core/sections.cpp), modelled as one call stack of section
\* calls and of the user code (chunk callbacks, external readers and writers)
\* those calls run.
EXTENDS Integers, Sequences, FiniteSets, TLC

\* ---------------------------------------------------------------- bounds
MaxCap == 2        \* staging buffer capacities are drawn from 0..MaxCap
MaxData == 3       \* setDataSize arguments are drawn from 0..MaxData
MaxAddr == 3       \* request addresses are drawn from 0..MaxAddr
MaxLen == 3        \* request lengths are drawn from 0..MaxLen
MaxNest == 1       \* user code re-enters a section at most this deep
MaxSpans == 2      \* spans registered in one view
MaxKey == 2        \* explicit atOffset arguments are drawn from 1..MaxKey
MaxSpanLen == 2    \* span lengths are drawn from 0..MaxSpanLen
MaxFrom == 1       \* span source offsets are drawn from 0..MaxFrom
MemSize == 4       \* initialSize of the InMemorySection and of the ZerosSection
MaxSize == 4       \* maxSize of the InMemorySection
MaxByte == 1       \* a chunk writer fills its span with one byte of 0..MaxByte

\* u64 arithmetic wraps; the modulus stands for 2^64 (any value at or above
\* U64Mod - MaxFrom is a wrapped difference).
U64Mod == 65536

\* ---------------------------------------------------------------- sections
P == "P"      \* the ProviderSection
M == "M"      \* the InMemorySection
Z == "Z"      \* the ZerosSection
V == "V"      \* a ViewSection
W == "W"      \* a second ViewSection
X == "X"      \* an id the evaluator does not know

Views == {V, W}

VARIABLES
    registry,            \* ids Evaluator::getSection resolves
    m_readBufferCap,     \* m_readBuffer.size()
    m_writeBufferCap,    \* m_writeBuffer.size()
    m_dataSize,
    m_reader,            \* TRUE when a ReaderFunction is attached
    m_writer,            \* TRUE when a WriterFunction is attached
    m_readBufferInUse,
    m_writeBufferInUse,
    m_readBuffer,        \* <<address, length>> of the reader call that filled it last
    m_writeBuffer,       \* <<level, length>> of the chunk callback that filled it last
    m_buffer,            \* InMemorySection: sequence of bytes
    m_size,              \* ZerosSection
    m_spans,             \* [Views -> [keys -> SectionSpan]]
    m_isBeingAccessed,   \* [Views -> BOOLEAN]
    stack,               \* call stack, innermost frame last
    ret,                 \* what the frame popped last returned; the set-up call made last
    failed               \* failed[u]: the chunk callback of user call u returned an error

vars == <<registry, m_readBufferCap, m_writeBufferCap, m_dataSize, m_reader, m_writer,
          m_readBufferInUse, m_writeBufferInUse, m_readBuffer, m_writeBuffer,
          m_buffer, m_size, m_spans, m_isBeingAccessed, stack, ret, failed>>

providerVars == <<m_readBufferCap, m_writeBufferCap, m_dataSize, m_reader, m_writer>>
guardVars == <<m_readBufferInUse, m_writeBufferInUse, m_isBeingAccessed>>
bufVars == <<m_readBuffer, m_writeBuffer>>
memVars == <<m_buffer, m_size>>

\* ---------------------------------------------------------------- errors
\* IOError: std::nullopt, or a message. cause names the message, path the
\* sections whose wrapping the message went through (outermost first).
OK == [cause |-> "ok", path |-> <<>>]
Err(c) == [cause |-> c, path |-> <<>>]
ErrAt(c, id) == [cause |-> c, path |-> <<id>>]
Wrap(id, e) == [cause |-> e.cause, path |-> <<id>> \o e.path]

Min(a, b) == IF a < b THEN a ELSE b

\* ---------------------------------------------------------------- frames
CallFrame(sec, isRead, addr, len, u, deleg) ==
    [kind |-> "call", sec |-> sec, isRead |-> isRead, address |-> addr, size |-> len,
     reqAddr |-> addr, reqSize |-> len, pc |-> "entry", u |-> u, deleg |-> deleg,
     nExt |-> 0, nChunk |-> 0, bytes |-> 0, maxChunk |-> 0, inOrder |-> TRUE,
     key |-> 0, chunk |-> 0, what |-> "none", nested |-> FALSE]

UserFrame(sec, what, isRead, addr, len, u) ==
    [kind |-> "user", sec |-> sec, isRead |-> isRead, address |-> addr, size |-> len,
     reqAddr |-> addr, reqSize |-> len, pc |-> "run", u |-> u, deleg |-> FALSE,
     nExt |-> 0, nChunk |-> 0, bytes |-> 0, maxChunk |-> 0, inOrder |-> TRUE,
     key |-> 0, chunk |-> 0, what |-> what, nested |-> FALSE]

NoFrame == UserFrame(X, "none", FALSE, 0, 0, 0)
NoRet == [type |-> "none", err |-> OK, frame |-> NoFrame]
Value(e, f) == [type |-> "value", err |-> e, frame |-> f]
Thrown(f) == [type |-> "throw", err |-> Err("Fault"), frame |-> f]

Depth == Len(stack)
Top == stack[Depth]
Below == SubSeq(stack, 1, Depth - 1)
Running == Depth > 0 /\ ret.type = "none"
Returned == Depth > 0 /\ ret.type \in {"value", "throw"}
Idle == Depth = 0 /\ ret.type = "none"
SetTop(f) == [stack EXCEPT ![Depth] = f]

Pop(r) == /\ stack' = Below
          /\ ret' = r

\* ---------------------------------------------------------------- size()
\* std::map keeps its keys ordered: begin() is the least key, prev(end()) the greatest.
FirstKey(sp) == CHOOSE k \in DOMAIN sp : \A j \in DOMAIN sp : k <= j
LastKey(sp) == CHOOSE k \in DOMAIN sp : \A j \in DOMAIN sp : j <= k

\* size() that forgets to subtract the first key.
ViewSection_size_fromZero(sp) ==
    IF DOMAIN sp = {} THEN 0
    ELSE LastKey(sp) + sp[LastKey(sp)].size

\* size() that reports the length of the last span alone.
ViewSection_size_lastLength(sp) ==
    IF DOMAIN sp = {} THEN 0
    ELSE sp[LastKey(sp)].size

ViewSection_size(sp) ==
    IF DOMAIN sp = {} THEN 0
    ELSE (LastKey(sp) + sp[LastKey(sp)].size) - FirstKey(sp)

Size(sec) ==
    CASE sec = P -> m_dataSize
      [] sec = M -> Len(m_buffer)
      [] sec = Z -> m_size
      [] OTHER -> ViewSection_size(m_spans[sec])

\* api::Section::read / write validate the request against size() before
\* readRaw / writeRaw is called.
InBounds(sec, addr, len) == addr + len <= Size(sec)

U64Sub(a, b) == (a - b + U64Mod) % U64Mod
U64Add(a, b) == (a + b) % U64Mod

\* ---------------------------------------------------------------- Init
Init ==
    /\ registry = {M, Z, V, W}
    /\ m_readBufferCap = 0
    /\ m_writeBufferCap = 0
    /\ m_dataSize = 0
    /\ m_reader = FALSE
    /\ m_writer = FALSE
    /\ m_readBufferInUse = FALSE
    /\ m_writeBufferInUse = FALSE
    /\ m_readBuffer = <<>>
    /\ m_writeBuffer = <<>>
    /\ m_buffer = [i \in 1..MemSize |-> 0]
    /\ m_size = MemSize
    /\ m_spans = [v \in Views |-> <<>>]
    /\ m_isBeingAccessed = [v \in Views |-> FALSE]
    /\ stack = <<>>
    /\ ret = NoRet
    /\ failed = [u \in 0..MaxNest |-> FALSE]

\* ---------------------------------------------------------------- set-up
NoSpans == \A v \in Views : DOMAIN m_spans[v] = {}

\* ProviderSection::ProviderSection, and its registration with the evaluator.
ProviderSection_new(readBufferSize, writeBufferSize) ==
    /\ Idle
    /\ P \notin registry
    /\ NoSpans
    /\ registry' = registry \cup {P}
    /\ m_readBufferCap' = readBufferSize
    /\ m_writeBufferCap' = writeBufferSize
    /\ ret' = NoRet
    /\ UNCHANGED <<m_dataSize, m_reader, m_writer, guardVars, bufVars, memVars,
                   m_spans, stack, failed>>

setDataSize(n) ==
    /\ Idle
    /\ P \in registry
    /\ m_dataSize' = n
    /\ ret' = NoRet
    /\ UNCHANGED <<registry, m_readBufferCap, m_writeBufferCap, m_reader, m_writer,
                   guardVars, bufVars, memVars, m_spans, stack, failed>>

setReader ==
    /\ Idle
    /\ P \in registry
    /\ m_reader' = TRUE
    /\ ret' = NoRet
    /\ UNCHANGED <<registry, m_readBufferCap, m_writeBufferCap, m_dataSize, m_writer,
                   guardVars, bufVars, memVars, m_spans, stack, failed>>

setWriter ==
    /\ Idle
    /\ P \in registry
    /\ m_writer' = TRUE
    /\ ret' = NoRet
    /\ UNCHANGED <<registry, m_readBufferCap, m_writeBufferCap, m_dataSize, m_reader,
                   guardVars, bufVars, memVars, m_spans, stack, failed>>

\* ---------------------------------------------------------------- calls
\* A caller outside the sections issues read or write on a registered section:
\* on the provider once there is one, on the views once they have spans.
CallTargets ==
    IF P \in registry THEN {P}
    ELSE IF NoSpans THEN {M, Z, V, W}
    ELSE Views

Call(sec, isRead, addr, len) ==
    /\ Idle
    /\ sec \in CallTargets
    /\ stack' = <<CallFrame(sec, isRead, addr, len, 0, FALSE)>>
    /\ ret' = NoRet
    /\ failed' = [u \in 0..MaxNest |-> FALSE]
    /\ UNCHANGED <<registry, providerVars, guardVars, bufVars, memVars, m_spans>>

\* The outermost call has returned to its caller, which takes the result.
Call_return ==
    /\ Depth = 0
    /\ ret.type \in {"value", "throw"}
    /\ ret' = NoRet
    /\ UNCHANGED <<registry, providerVars, guardVars, bufVars, memVars, m_spans,
                   stack, failed>>

\* api::Section::read / write: a request outside [0, size()) fails before
\* readRaw / writeRaw runs.
Section_outOfBounds ==
    /\ Running
    /\ Top.kind = "call"
    /\ Top.pc = "entry"
    /\ ~InBounds(Top.sec, Top.address, Top.size)
    /\ Pop(Value(Err("OutOfBounds"), Top))
    /\ UNCHANGED <<registry, providerVars, guardVars, bufVars, memVars, m_spans, failed>>

Entering(sec, isRead) ==
    /\ Running
    /\ Top.kind = "call"
    /\ Top.sec = sec
    /\ Top.isRead = isRead
    /\ Top.pc = "entry"
    /\ InBounds(sec, Top.address, Top.size)

At(sec, isRead, pc) ==
    /\ Depth > 0
    /\ Top.kind = "call"
    /\ Top.sec = sec
    /\ Top.isRead = isRead
    /\ Top.pc = pc

\* A caller that drops the error a chunk callback or a delegated call returned.
chunkFailed_ignored(error) == FALSE

\* if (auto error = reader(span)) / writer(span) / section.read(...) / section.write(...)
chunkFailed(error) == error # OK

\* ---------------------------------------------------------------- ProviderSection
\* readRaw without its scope guard: the flag stays set.
readRaw_exit_leak == UNCHANGED m_readBufferInUse

\* ON_SCOPE_EXIT { m_readBufferInUse = false; } and { m_writeBufferInUse = false; }
readRaw_exit == m_readBufferInUse' = FALSE
writeRaw_exit == m_writeBufferInUse' = FALSE

\* readRaw testing the write buffer's flag, so that a nested read passes.
readRaw_precondition_wrongFlag ==
    IF ~m_reader THEN "NoReader"
    ELSE IF m_writeBufferInUse THEN "ReentrantRead"
    ELSE IF m_readBufferCap = 0 THEN "ZeroReadBuffer"
    ELSE "ok"

\* The checks readRaw makes before it takes the read staging buffer.
readRaw_precondition ==
    IF ~m_reader THEN "NoReader"
    ELSE IF m_readBufferInUse THEN "ReentrantRead"
    ELSE IF m_readBufferCap = 0 THEN "ZeroReadBuffer"
    ELSE "ok"

\* The checks writeRaw makes before it takes the write staging buffer.
writeRaw_precondition ==
    IF ~m_writer THEN "NoWriter"
    ELSE IF m_readBufferInUse THEN "ReentrantWrite"
    ELSE IF m_readBufferCap = 0 THEN "ZeroWriteBuffer"
    ELSE "ok"

\* A chunk one byte short of the staging buffer.
readRaw_chunkSize_short(size) == Min(size, m_readBufferCap - 1)

readRaw_chunkSize(size) == Min(size, m_readBufferCap)
writeRaw_chunkSize(size) == Min(size, m_writeBufferCap)

ProviderSection_readRaw_begin ==
    /\ Entering(P, TRUE)
    /\ IF readRaw_precondition # "ok"
       THEN /\ Pop(Value(Err(readRaw_precondition), Top))
            /\ UNCHANGED m_readBufferInUse
       ELSE /\ m_readBufferInUse' = TRUE
            /\ stack' = SetTop([Top EXCEPT !.pc = "loop"])
            /\ UNCHANGED ret
    /\ UNCHANGED <<registry, providerVars, m_writeBufferInUse, m_isBeingAccessed,
                   bufVars, memVars, m_spans, failed>>

\* while (chunkSize = min(size, m_readBuffer.size())) { m_reader(fromAddress, ...)
ProviderSection_readRaw_loop ==
    /\ Running
    /\ At(P, TRUE, "loop")
    /\ LET chunkSize == readRaw_chunkSize(Top.size) IN
       IF chunkSize = 0
       THEN /\ Pop(Value(OK, Top))
            /\ readRaw_exit
            /\ UNCHANGED m_readBuffer
       ELSE /\ stack' = SetTop([Top EXCEPT !.pc = "ext", !.chunk = chunkSize,
                                   !.nExt = @ + 1,
                                   !.maxChunk = IF chunkSize > @ THEN chunkSize ELSE @,
                                   !.inOrder = @ /\ Top.address = Top.reqAddr + Top.bytes])
                      \o <<UserFrame(P, "reader", TRUE, Top.address, chunkSize, Top.u)>>
            /\ m_readBuffer' = <<Top.address, chunkSize>>
            /\ UNCHANGED <<ret, m_readBufferInUse>>
    /\ UNCHANGED <<registry, providerVars, m_writeBufferInUse, m_isBeingAccessed,
                   m_writeBuffer, memVars, m_spans, failed>>

\* ... if (auto error = reader(span)) ...
ProviderSection_readRaw_deliver ==
    /\ Returned
    /\ ret.type = "value"
    /\ At(P, TRUE, "ext")
    /\ stack' = SetTop([Top EXCEPT !.pc = "chunk", !.nChunk = @ + 1,
                                   !.bytes = @ + Top.chunk])
                \o <<UserFrame(P, "chunk", TRUE, Top.address, Top.chunk, Top.u)>>
    /\ ret' = NoRet
    /\ UNCHANGED <<registry, providerVars, guardVars, bufVars, memVars, m_spans, failed>>

\* ... return error; } fromAddress += chunkSize; size -= chunkSize; }
ProviderSection_readRaw_next ==
    /\ Returned
    /\ ret.type = "value"
    /\ At(P, TRUE, "chunk")
    /\ IF chunkFailed(ret.err)
       THEN /\ Pop(Value(ret.err, Top))
            /\ readRaw_exit
       ELSE /\ stack' = SetTop([Top EXCEPT !.pc = "loop",
                                           !.address = U64Add(@, Top.chunk),
                                           !.size = @ - Top.chunk])
            /\ ret' = NoRet
            /\ UNCHANGED m_readBufferInUse
    /\ UNCHANGED <<registry, providerVars, m_writeBufferInUse, m_isBeingAccessed,
                   bufVars, memVars, m_spans, failed>>

ProviderSection_writeRaw_begin ==
    /\ Entering(P, FALSE)
    /\ IF writeRaw_precondition # "ok"
       THEN /\ Pop(Value(Err(writeRaw_precondition), Top))
            /\ UNCHANGED m_writeBufferInUse
       ELSE /\ m_writeBufferInUse' = TRUE
            /\ stack' = SetTop([Top EXCEPT !.pc = "loop"])
            /\ UNCHANGED ret
    /\ UNCHANGED <<registry, providerVars, m_readBufferInUse, m_isBeingAccessed,
                   bufVars, memVars, m_spans, failed>>

\* while (chunkSize = min(size, m_writeBuffer.size())) { if (auto error = writer(span))
ProviderSection_writeRaw_loop ==
    /\ Running
    /\ At(P, FALSE, "loop")
    /\ LET chunkSize == writeRaw_chunkSize(Top.size) IN
       IF chunkSize = 0
       THEN /\ Pop(Value(OK, Top))
            /\ writeRaw_exit
       ELSE /\ stack' = SetTop([Top EXCEPT !.pc = "chunk", !.chunk = chunkSize,
                                   !.nChunk = @ + 1,
                                   !.maxChunk = IF chunkSize > @ THEN chunkSize ELSE @,
                                   !.bytes = @ + chunkSize])
                      \o <<UserFrame(P, "chunk", FALSE, Top.address, chunkSize, Top.u)>>
            /\ UNCHANGED <<ret, m_writeBufferInUse>>
    /\ UNCHANGED <<registry, providerVars, m_readBufferInUse, m_isBeingAccessed,
                   bufVars, memVars, m_spans, failed>>

\* ... return error; m_writer(toAddress, span.data(), span.size());
ProviderSection_writeRaw_flush ==
    /\ Returned
    /\ ret.type = "value"
    /\ At(P, FALSE, "chunk")
    /\ IF chunkFailed(ret.err)
       THEN /\ Pop(Value(ret.err, Top))
            /\ writeRaw_exit
       ELSE /\ stack' = SetTop([Top EXCEPT !.pc = "ext", !.nExt = @ + 1,
                                   !.inOrder = @ /\ Top.address + Top.chunk = Top.reqAddr + Top.bytes])
                      \o <<UserFrame(P, "writer", FALSE, Top.address, Top.chunk, Top.u)>>
            /\ ret' = NoRet
            /\ UNCHANGED m_writeBufferInUse
    /\ UNCHANGED <<registry, providerVars, m_readBufferInUse, m_isBeingAccessed,
                   bufVars, memVars, m_spans, failed>>

\* ... toAddress += chunkSize; size -= chunkSize; }
ProviderSection_writeRaw_next ==
    /\ Returned
    /\ ret.type = "value"
    /\ At(P, FALSE, "ext")
    /\ stack' = SetTop([Top EXCEPT !.pc = "loop",
                                   !.address = U64Add(@, Top.chunk),
                                   !.size = @ - Top.chunk])
    /\ ret' = NoRet
    /\ UNCHANGED <<registry, providerVars, guardVars, bufVars, memVars, m_spans, failed>>

\* ---------------------------------------------------------------- user code
\* A chunk callback returns std::nullopt or an error, or throws; an external
\* reader or writer returns nothing. A ChunkWriter that succeeds has filled the
\* span it was given with the byte val.
Outcomes(what) == IF what = "chunk" THEN {"ok", "error", "throw"} ELSE {"ok"}

Fill(buf, from, len, val) ==
    [i \in 1..Len(buf) |-> IF from < i /\ i <= from + len THEN val ELSE buf[i]]

User_return(res, val) ==
    /\ Running
    /\ Top.kind = "user"
    /\ res \in Outcomes(Top.what)
    /\ Pop(CASE res = "ok" -> Value(OK, Top)
             [] res = "error" -> Value(Err("Chunk"), Top)
             [] OTHER -> Thrown(Top))
    /\ failed' = IF res = "error" THEN [failed EXCEPT ![Top.u] = TRUE] ELSE failed
    /\ m_writeBuffer' = IF res = "ok" /\ Top.what = "chunk" /\ Top.sec = P /\ ~Top.isRead
                        THEN <<Top.u, Top.size>> ELSE m_writeBuffer
    /\ m_buffer' = IF res = "ok" /\ Top.what = "chunk" /\ Top.sec = M /\ ~Top.isRead
                   THEN Fill(m_buffer, Top.address, Top.size, val) ELSE m_buffer
    /\ UNCHANGED <<registry, providerVars, guardVars, m_readBuffer, m_size, m_spans>>

\* The reader, the writer or a chunk callback of a ProviderSection call calls
\* back into that section.
User_reenter(isRead, len) ==
    /\ Running
    /\ Top.kind = "user"
    /\ Top.sec = P
    /\ ~Top.nested
    /\ Top.u < MaxNest
    /\ stack' = SetTop([Top EXCEPT !.nested = TRUE])
                \o <<CallFrame(P, isRead, 0, len, Top.u + 1, FALSE)>>
    /\ failed' = [failed EXCEPT ![Top.u + 1] = FALSE]
    /\ UNCHANGED <<registry, providerVars, guardVars, bufVars, memVars, m_spans, ret>>

\* The nested call returned a value: the user code goes on.
User_resume ==
    /\ Returned
    /\ ret.type = "value"
    /\ Top.kind = "user"
    /\ ret' = NoRet
    /\ UNCHANGED <<registry, providerVars, guardVars, bufVars, memVars, m_spans,
                   stack, failed>>

\* A frame with no handler for the fault.
access_catch_none(f) == FALSE

\* try { ... } catch (...) in ViewSection::access: the one frame that catches.
access_catch(f) == f.kind = "call" /\ f.sec \in Views

\* A fault unwinds a frame that does not catch it; ON_SCOPE_EXIT releases the
\* staging buffer the frame holds.
Unwind ==
    /\ Returned
    /\ ret.type = "throw"
    /\ ~access_catch(Top)
    /\ Pop(Thrown(Top))
    /\ IF Top.kind = "call" /\ Top.sec = P /\ Top.isRead
       THEN readRaw_exit ELSE UNCHANGED m_readBufferInUse
    /\ IF Top.kind = "call" /\ Top.sec = P /\ ~Top.isRead
       THEN writeRaw_exit ELSE UNCHANGED m_writeBufferInUse
    /\ UNCHANGED <<registry, providerVars, m_isBeingAccessed, bufVars, memVars,
                   m_spans, failed>>

\* ---------------------------------------------------------------- InMemorySection
InMemorySection_readRaw ==
    /\ Entering(M, TRUE)
    /\ stack' = SetTop([Top EXCEPT !.pc = "chunk", !.nChunk = @ + 1, !.bytes = @ + Top.size,
                                   !.chunk = Top.size])
                \o <<UserFrame(M, "chunk", TRUE, Top.address, Top.size, Top.u)>>
    /\ UNCHANGED <<registry, providerVars, guardVars, bufVars, memVars, m_spans, ret, failed>>

InMemorySection_writeRaw ==
    /\ Entering(M, FALSE)
    /\ stack' = SetTop([Top EXCEPT !.pc = "chunk", !.nChunk = @ + 1, !.bytes = @ + Top.size,
                                   !.chunk = Top.size])
                \o <<UserFrame(M, "chunk", FALSE, Top.address, Top.size, Top.u)>>
    /\ UNCHANGED <<registry, providerVars, guardVars, bufVars, memVars, m_spans, ret, failed>>

\* return reader(...) / return writer(...)
InMemorySection_return ==
    /\ Returned
    /\ ret.type = "value"
    /\ Top.kind = "call"
    /\ Top.sec = M
    /\ Top.pc = "chunk"
    /\ Pop(Value(ret.err, Top))
    /\ UNCHANGED <<registry, providerVars, guardVars, bufVars, memVars, m_spans, failed>>

\* A read that hands out zeros whatever the buffer holds.
InMemorySection_chunk_zeros(f) == [i \in 1..f.size |-> 0]

\* std::span(m_buffer).subspan(address, size): the bytes the chunk callback of
\* frame f is handed.
InMemorySection_chunk(f) == SubSeq(m_buffer, f.address + 1, f.address + f.size)

\* A resize that never refuses.
resize_overflow_off(newSize) == FALSE

\* if (m_maxSize < newSize)
resize_overflow(newSize) == MaxSize < newSize

\* m_buffer.resize(newSize): the front is kept, new bytes are zero.
vector_resize(buf, newSize) ==
    [i \in 1..newSize |-> IF i <= Len(buf) THEN buf[i] ELSE 0]

\* The call resize(newSize), as the caller that made it remembers it.
ResizeFrame(sec, newSize) ==
    [NoFrame EXCEPT !.kind = "resize", !.sec = sec, !.size = newSize]

InMemorySection_resize(newSize) ==
    /\ Idle
    /\ IF resize_overflow(newSize)
       THEN /\ ret' = Value(Err("Expansion"), ResizeFrame(M, newSize))
            /\ UNCHANGED m_buffer
       ELSE /\ ret' = Value(OK, ResizeFrame(M, newSize))
            /\ m_buffer' = vector_resize(m_buffer, newSize)
    /\ UNCHANGED <<registry, providerVars, guardVars, bufVars, m_size, m_spans,
                   stack, failed>>

\* ---------------------------------------------------------------- ZerosSection
\* A read hands the chunk callback the requested range, zero-filled; a write
\* hands it a scratch range and discards what it produced.
ZerosSection_readRaw ==
    /\ Entering(Z, TRUE)
    /\ stack' = SetTop([Top EXCEPT !.pc = "chunk", !.nChunk = @ + 1, !.bytes = @ + Top.size,
                                   !.chunk = Top.size])
                \o <<UserFrame(Z, "chunk", TRUE, Top.address, Top.size, Top.u)>>
    /\ UNCHANGED <<registry, providerVars, guardVars, bufVars, memVars, m_spans, ret, failed>>

ZerosSection_writeRaw ==
    /\ Entering(Z, FALSE)
    /\ stack' = SetTop([Top EXCEPT !.pc = "chunk", !.nChunk = @ + 1, !.bytes = @ + Top.size,
                                   !.chunk = Top.size])
                \o <<UserFrame(Z, "chunk", FALSE, Top.address, Top.size, Top.u)>>
    /\ UNCHANGED <<registry, providerVars, guardVars, bufVars, memVars, m_spans, ret, failed>>

ZerosSection_return ==
    /\ Returned
    /\ ret.type = "value"
    /\ Top.kind = "call"
    /\ Top.sec = Z
    /\ Top.pc = "chunk"
    /\ Pop(Value(ret.err, Top))
    /\ UNCHANGED <<registry, providerVars, guardVars, bufVars, memVars, m_spans, failed>>

\* ---------------------------------------------------------------- ViewSection
SectionSpan(sectionId, fromAddress, size) ==
    [sectionId |-> sectionId, offset |-> fromAddress, size |-> size]

\* An insertion that replaces the span of a key already present.
emplace_assign(sp, atOffset, span) ==
    [k \in DOMAIN sp \cup {atOffset} |-> IF k = atOffset THEN span ELSE sp[k]]

\* m_spans.emplace(*atOffset, ...): a key already present keeps its span.
emplace(sp, atOffset, span) ==
    IF atOffset \in DOMAIN sp THEN sp
    ELSE [k \in DOMAIN sp \cup {atOffset} |-> IF k = atOffset THEN span ELSE sp[k]]

\* std::optional<u64> atOffset = std::nullopt
nullopt == -1

\* atOffset == std::nullopt: 0 in an empty view, else the end of the last span.
defaultOffset(sp) ==
    IF DOMAIN sp = {} THEN 0
    ELSE U64Add(LastKey(sp), sp[LastKey(sp)].size)

\* The spans the model registers: V aliases M freely and V, W or the unknown id
\* with a span of full length; W aliases V.
SpanChoices(v) ==
    IF v = V
    THEN {SectionSpan(M, f, n) : f \in 0..MaxFrom, n \in 0..MaxSpanLen}
         \cup {SectionSpan(id, 0, MaxSpanLen) : id \in {V, W, X}}
    ELSE {SectionSpan(V, 0, MaxSpanLen)}

MaySpan(v, atOffset) ==
    /\ Idle
    /\ P \notin registry
    /\ \/ atOffset \in DOMAIN m_spans[v]
       \/ Cardinality(DOMAIN m_spans[v]) < (IF v = V THEN MaxSpans ELSE 1)

\* The call addSectionSpan(sectionId, fromAddress, size, atOffset) on view v, as
\* the caller that made it last remembers it.
AddFrame(v, span, atOffset) ==
    [NoFrame EXCEPT !.kind = "add", !.sec = v, !.what = span.sectionId,
                    !.address = span.offset, !.size = span.size, !.key = atOffset]

addSectionSpan(v, span, atOffset) ==
    LET at == IF atOffset = nullopt THEN defaultOffset(m_spans[v]) ELSE atOffset IN
    /\ MaySpan(v, at)
    /\ span \in SpanChoices(v)
    /\ m_spans' = [m_spans EXCEPT ![v] = emplace(@, at, span)]
    /\ ret' = [NoRet EXCEPT !.frame = AddFrame(v, span, atOffset)]
    /\ UNCHANGED <<registry, providerVars, guardVars, bufVars, memVars, stack, failed>>

addSectionSpan_atEnd(v, span) == addSectionSpan(v, span, nullopt)

\* std::prev(m_spans.upper_bound(address)): the span with the greatest key <= address.
HasFloor(sp, address) == \E k \in DOMAIN sp : k <= address
FloorKey(sp, address) ==
    CHOOSE k \in DOMAIN sp : k <= address /\ \A j \in DOMAIN sp : j <= address => j <= k

access_chunkOffset(address, key, span) == U64Sub(address, span.offset)
access_chunkSize(size, key, span) == Min(size, span.size)

\* access without its guard.
access_selfRecursion_off(v) == FALSE

\* if (m_isBeingAccessed) return "View self-recursion not permitted";
access_selfRecursion(v) == m_isBeingAccessed[v]

\* m_isBeingAccessed = true; ON_SCOPE_EXIT { m_isBeingAccessed = false; };
access_enter(v) == m_isBeingAccessed' = [m_isBeingAccessed EXCEPT ![v] = TRUE]
access_exit(v) == m_isBeingAccessed' = [m_isBeingAccessed EXCEPT ![v] = FALSE]

\* if (m_isBeingAccessed) return ...; m_isBeingAccessed = true; if (m_spans.empty()) ...
ViewSection_access_begin ==
    /\ Running
    /\ Top.kind = "call"
    /\ Top.sec \in Views
    /\ Top.pc = "entry"
    /\ InBounds(Top.sec, Top.address, Top.size)
    /\ IF access_selfRecursion(Top.sec)
       THEN /\ Pop(Value(Err("SelfRecursion"), Top))
            /\ UNCHANGED m_isBeingAccessed
       ELSE IF DOMAIN m_spans[Top.sec] = {}
       THEN /\ Pop(Value(Err("ViewOutOfBounds"), Top))
            /\ UNCHANGED m_isBeingAccessed
       ELSE /\ stack' = SetTop([Top EXCEPT !.pc = "loop"])
            /\ access_enter(Top.sec)
            /\ UNCHANGED ret
    /\ UNCHANGED <<registry, providerVars, m_readBufferInUse, m_writeBufferInUse,
                   bufVars, memVars, m_spans, failed>>

\* The loop body up to the delegated section.read / section.write.
ViewSection_access_loop ==
    /\ Running
    /\ Top.kind = "call"
    /\ Top.sec \in Views
    /\ Top.pc = "loop"
    /\ HasFloor(m_spans[Top.sec], Top.address)
    /\ LET sp == m_spans[Top.sec]
           key == FloorKey(sp, Top.address)
           span == sp[key]
           chunkOffset == access_chunkOffset(Top.address, key, span)
           chunkSize == access_chunkSize(Top.size, key, span)
       IN  IF Top.address < key
           THEN /\ Pop(Value(Err("ViewOutOfBounds"), Top))
                /\ access_exit(Top.sec)
           ELSE IF Top.size = 0
           THEN /\ Pop(Value(OK, Top))
                /\ access_exit(Top.sec)
           ELSE IF span.sectionId \notin registry
           THEN /\ Pop(Value(ErrAt("MappedFault", span.sectionId), Top))
                /\ access_exit(Top.sec)
           ELSE /\ stack' = SetTop([Top EXCEPT !.pc = "sub", !.key = key, !.chunk = chunkSize])
                            \o <<CallFrame(span.sectionId, Top.isRead, chunkOffset, chunkSize,
                                           Top.u, TRUE)>>
                /\ UNCHANGED <<ret, m_isBeingAccessed>>
    /\ UNCHANGED <<registry, providerVars, m_readBufferInUse, m_writeBufferInUse,
                   bufVars, memVars, m_spans, failed>>

\* No key is <= address: std::prev(m_spans.begin()) is undefined. The key read
\* through it may exceed the address (the out-of-bounds return), the span read
\* through it may name no section (the caught fault), or the process dies.
ViewSection_access_undefined(outcome) ==
    /\ Running
    /\ Top.kind = "call"
    /\ Top.sec \in Views
    /\ Top.pc = "loop"
    /\ ~HasFloor(m_spans[Top.sec], Top.address)
    /\ outcome \in {"oob", "fault", "crash"}
    /\ IF outcome = "crash"
       THEN /\ ret' = [type |-> "crash", err |-> Err("Undefined"), frame |-> Top]
            /\ UNCHANGED <<stack, m_isBeingAccessed>>
       ELSE /\ Pop(Value(IF outcome = "oob" THEN Err("ViewOutOfBounds")
                         ELSE ErrAt("MappedFault", X), Top))
            /\ access_exit(Top.sec)
    /\ UNCHANGED <<registry, providerVars, m_readBufferInUse, m_writeBufferInUse,
                   bufVars, memVars, m_spans, failed>>

\* The delegated call came back: wrap its error, convert its fault, or advance.
ViewSection_access_return ==
    /\ Returned
    /\ Top.kind = "call"
    /\ Top.sec \in Views
    /\ Top.pc = "sub"
    /\ LET id == m_spans[Top.sec][Top.key].sectionId IN
       IF ret.type = "throw"
       THEN /\ Pop(Value(ErrAt("MappedFault", id), Top))
            /\ access_exit(Top.sec)
       ELSE IF chunkFailed(ret.err)
       THEN /\ Pop(Value(Wrap(id, ret.err), Top))
            /\ access_exit(Top.sec)
       ELSE IF Top.size - Top.chunk = 0
       THEN /\ Pop(Value(OK, [Top EXCEPT !.address = U64Add(@, Top.chunk), !.size = 0]))
            /\ access_exit(Top.sec)
       ELSE /\ stack' = SetTop([Top EXCEPT !.pc = "loop",
                                           !.address = U64Add(@, Top.chunk),
                                           !.size = @ - Top.chunk])
            /\ ret' = NoRet
            /\ UNCHANGED m_isBeingAccessed
    /\ UNCHANGED <<registry, providerVars, m_readBufferInUse, m_writeBufferInUse,
                   bufVars, memVars, m_spans, failed>>

\* ---------------------------------------------------------------- Next
Next ==
    \/ \E r \in 0..MaxCap, w \in 0..MaxCap : ProviderSection_new(r, w)
    \/ \E n \in 0..MaxData : setDataSize(n)
    \/ setReader
    \/ setWriter
    \/ \E v \in Views : \E span \in SpanChoices(v), at \in 0..MaxKey : addSectionSpan(v, span, at)
    \/ \E v \in Views : \E span \in SpanChoices(v) : addSectionSpan_atEnd(v, span)
    \/ \E sec \in {P, M, Z, V, W}, isRead \in BOOLEAN, addr \in 0..MaxAddr, len \in 0..MaxLen :
          Call(sec, isRead, addr, len)
    \/ Call_return
    \/ Section_outOfBounds
    \/ ProviderSection_readRaw_begin
    \/ ProviderSection_readRaw_loop
    \/ ProviderSection_readRaw_deliver
    \/ ProviderSection_readRaw_next
    \/ ProviderSection_writeRaw_begin
    \/ ProviderSection_writeRaw_loop
    \/ ProviderSection_writeRaw_flush
    \/ ProviderSection_writeRaw_next
    \/ \E res \in {"ok", "error", "throw"} : User_return(res, 0)
    \/ \E isRead \in BOOLEAN, len \in {1, MaxLen} : User_reenter(isRead, len)
    \/ User_resume
    \/ Unwind
    \/ InMemorySection_readRaw
    \/ InMemorySection_writeRaw
    \/ InMemorySection_return
    \/ ZerosSection_readRaw
    \/ ZerosSection_writeRaw
    \/ ZerosSection_return
    \/ ViewSection_access_begin
    \/ ViewSection_access_loop
    \/ \E outcome \in {"oob", "fault", "crash"} : ViewSection_access_undefined(outcome)
    \/ ViewSection_access_return

Spec == Init /\ [][Next]_vars

\* The InMemorySection on its own and behind one view: it is resized, written
\* with bytes of 0..MaxByte, and read back directly or through the view V,
\* whose spans alias it and are appended one after the other.
NextMem ==
    \/ \E newSize \in 0..MaxSize + 1 : InMemorySection_resize(newSize)
    \/ \E f \in 0..MaxFrom, n \in 1..MaxSpanLen : addSectionSpan_atEnd(V, SectionSpan(M, f, n))
    \/ \E sec \in {M, V}, isRead \in BOOLEAN, addr \in 0..MaxAddr, len \in 0..MaxLen :
          Call(sec, isRead, addr, len)
    \/ Call_return
    \/ Section_outOfBounds
    \/ \E res \in {"ok", "error", "throw"}, val \in 0..MaxByte : User_return(res, val)
    \/ Unwind
    \/ InMemorySection_readRaw
    \/ InMemorySection_writeRaw
    \/ InMemorySection_return
    \/ ViewSection_access_begin
    \/ ViewSection_access_loop
    \/ ViewSection_access_return

SpecMem == Init /\ [][NextMem]_vars

\* ================================================================ claims
IsCall(f) == f.kind = "call"
Delegating(i) == i < Depth /\ IsCall(stack[i]) /\ stack[i].sec \in Views /\ stack[i].pc = "sub"
InFlight(sec, isRead) ==
    \E i \in 1..Depth : IsCall(stack[i]) /\ stack[i].sec = sec /\ stack[i].isRead = isRead
\* The call that returned last, when it was a call on sec.
ReturnedFrom(sec) == ret.type = "value" /\ IsCall(ret.frame) /\ ret.frame.sec = sec
Ceil(n, b) == (n + b - 1) \div b

\* No span covers address a: it lies before the first key, or at or past the
\* end of its floor span.
C8_Uncovered(sp, a) ==
    \/ ~HasFloor(sp, a)
    \/ a >= FloorKey(sp, a) + sp[FloorKey(sp, a)].size

\* C1: a view delegates the sub-request for virtual address a, whose floor span
\* has key k and source offset o, at offset a - k + o of the target section.
C1_AddressTranslation ==
    \A i \in 1..Depth :
        Delegating(i) =>
            LET span == m_spans[stack[i].sec][stack[i].key] IN
            stack[i + 1].reqAddr = stack[i].address - stack[i].key + span.offset

\* C2: a nonzero-length request that is not within [0, size()) of its section
\* returns an error, and the section invokes no chunk callback, no external
\* reader or writer and no delegated sub-request for it.
C2_Extent(sec) ==
    CASE sec = P -> m_dataSize
      [] sec = M -> Len(m_buffer)
      [] sec = Z -> m_size
      [] OTHER ->
          LET keys == DOMAIN m_spans[sec] IN
          IF keys = {} THEN 0
          ELSE LET lo == CHOOSE k \in keys : \A j \in keys : k <= j
                   hi == CHOOSE k \in keys : \A j \in keys : j <= k
               IN  hi + m_spans[sec][hi].size - lo
C2_Outside(f) ==
    /\ IsCall(f)
    /\ f.reqSize > 0
    /\ f.reqAddr + f.reqSize > C2_Extent(f.sec)
C3_Capacity(f) == IF f.isRead THEN m_readBufferCap ELSE m_writeBufferCap
C3_ProviderChunking ==
    (ReturnedFrom(P) /\ ret.err = OK /\ C3_Capacity(ret.frame) > 0) =>
        /\ ret.frame.nExt = Ceil(ret.frame.reqSize, C3_Capacity(ret.frame))
        /\ ret.frame.nChunk = ret.frame.nExt
        /\ ret.frame.maxChunk <= C3_Capacity(ret.frame)
        /\ ret.frame.inOrder
        /\ ret.frame.bytes = ret.frame.reqSize
C3_Witness ==
    /\ ReturnedFrom(P)
    /\ ret.err = OK
    /\ ~ret.frame.isRead
    /\ ret.frame.reqSize = 3
    /\ m_writeBufferCap = 2
    /\ ret.frame.nExt = 2

\* C4: a ProviderSection write that passes the bounds check fails with the
\* reentrancy error exactly when another write on the same instance is in
\* flight (so not merely because a read is).
C4_WriteReentrancy ==
    (ReturnedFrom(P) /\ ~ret.frame.isRead
        /\ ret.frame.reqAddr + ret.frame.reqSize <= m_dataSize) =>
        (ret.err.cause = "ReentrantWrite" <=> InFlight(P, FALSE))

\* C5: a ProviderSection read issued while another read on the instance is in
\* flight fails with the reentrancy error, invokes neither the external reader
\* nor the chunk callback, leaves the staging buffer holding the outer read's
\* chunk and leaves the outer read holding the buffer.
C5_OuterReads ==
    {i \in 1..Depth : IsCall(stack[i]) /\ stack[i].sec = P /\ stack[i].isRead}
C5_ReadReentrancy ==
    (ReturnedFrom(P) /\ ret.frame.isRead /\ C5_OuterReads # {}
        /\ ret.frame.reqAddr + ret.frame.reqSize <= m_dataSize) =>
        /\ ret.err = Err("ReentrantRead")
        /\ ret.frame.nExt = 0
        /\ ret.frame.nChunk = 0
        /\ m_readBufferInUse
        /\ \A i \in C5_OuterReads :
              /\ stack[i].pc \in {"ext", "chunk"}
              /\ m_readBuffer = <<stack[i].address, stack[i].chunk>>
C5_Witness ==
    /\ ReturnedFrom(P)
    /\ ret.frame.isRead
    /\ ret.err = Err("ReentrantRead")
    /\ \E i \in C5_OuterReads : stack[i].pc = "chunk" /\ stack[i].chunk = 2

\* C6, as stated: every read or write of a view with a span that resolves back
\* into it, directly or through a second view, returns the self-recursion
\* error. Stated for the requests most favourable to it: of nonzero length,
\* within [0, size()) and starting at a covered address.
C6_SelfRef(v) ==
    \E k \in DOMAIN m_spans[v] :
        LET t == m_spans[v][k].sectionId IN
        \/ t = v
        \/ t \in Views /\ \E j \in DOMAIN m_spans[t] : m_spans[t][j].sectionId = v
C6_ViewCalls == {i \in 1..Depth : IsCall(stack[i]) /\ stack[i].sec \in Views}
C6_Guarded ==
    /\ Cardinality(C6_ViewCalls) <= Cardinality(Views) + 1
    /\ \A i, j \in C6_ViewCalls :
          (stack[i].sec = stack[j].sec /\ stack[i].pc # "entry" /\ stack[j].pc # "entry")
              => i = j
    /\ \A v \in Views :
          (ReturnedFrom(v) /\ ret.frame.reqAddr + ret.frame.reqSize <= C2_Extent(v)
              /\ \E i \in C6_ViewCalls : stack[i].sec = v) =>
              /\ ret.err = Err("SelfRecursion")
              /\ ret.frame.pc = "entry"
C6_Propagates ==
    (ret.type = "value" /\ ret.err.cause = "SelfRecursion" /\ Depth > 0) =>
        /\ Depth' = Depth - 1
        /\ ret'.type = "value"
        /\ ret'.err.cause = "SelfRecursion"
        /\ ret'.err.path = <<m_spans[Top.sec][Top.key].sectionId>> \o ret.err.path
C7_Busy(sec) == \E i \in 1..Depth : IsCall(stack[i]) /\ stack[i].sec = sec
C7_GuardRelease ==
    /\ ~C7_Busy(P) => ~m_readBufferInUse /\ ~m_writeBufferInUse
    /\ \A v \in Views : ~C7_Busy(v) => ~m_isBeingAccessed[v]
    /\ (ret.type = "value" /\ IsCall(ret.frame)
            /\ ret.err.cause \in {"ReentrantRead", "ReentrantWrite", "SelfRecursion"}
            /\ ret.err.path = <<>>) =>
          C7_Busy(ret.frame.sec)
C7_Witness ==
    /\ Depth = 0
    /\ ReturnedFrom(P)
    /\ ret.frame.isRead
    /\ ret.err = Err("Chunk")
    /\ ret.frame.nChunk = 2

\* C8: a view access at an address no span covers fails with an out-of-bounds
\* error, whatever its length, and delegates nothing.
C8_UncoveredAddress ==
    /\ \A i \in 1..Depth :
          Delegating(i) => ~C8_Uncovered(m_spans[stack[i].sec], stack[i].address)
    /\ \A v \in Views :
          (ReturnedFrom(v) /\ ret.err.cause # "SelfRecursion"
              /\ C8_Uncovered(m_spans[v], ret.frame.reqAddr)) =>
              /\ ret.err.cause \in {"OutOfBounds", "ViewOutOfBounds"}
              /\ ret.err.path = <<>>

\* C9: every byte of a delegated sub-request comes from the span with the
\* greatest key at or below that byte's virtual address.
C9_OverlapTruncation ==
    \A i \in 1..Depth :
        Delegating(i) =>
            \A b \in stack[i].address .. stack[i].address + stack[i].chunk - 1 :
                FloorKey(m_spans[stack[i].sec], b) = stack[i].key

\* C10: once a chunk callback of a call has returned an error, that call
\* invokes no further chunk callback, external reader or writer or delegated
\* sub-request, and every section call of it returns the callback's error.
C10_Event(u) ==
    /\ Depth' = Depth + 1
    /\ stack'[Depth'].u = u
    /\ stack'[Depth'].kind = "user" \/ stack'[Depth'].deleg
C10_Returns ==
    (ret.type # "none" /\ IsCall(ret.frame) /\ failed[ret.frame.u]) =>
        /\ ret.type = "value"
        /\ ret.err.cause = "Chunk"
C10_Stops == \A u \in 0..MaxNest : (failed[u] /\ failed'[u]) => ~C10_Event(u)
C10_ChunkErrorAbort == [](C10_Returns) /\ [][C10_Stops]_vars
C10_Witness ==
    /\ ReturnedFrom(P)
    /\ ~ret.frame.isRead
    /\ ret.err = Err("Chunk")
    /\ ret.frame.nChunk = 2
    /\ ret.frame.nExt = 1

\* C11: a ProviderSection read (write) with the reader (writer) attached and no
\* call on the instance in flight fails with the zero-capacity error when the
\* read (write) staging buffer has capacity 0 - and not because the other
\* buffer has; and no nonzero-length request that transferred zero bytes
\* returns success.
C11_Alone(f) ==
    /\ IsCall(f)
    /\ f.sec = P
    /\ f.reqAddr + f.reqSize <= m_dataSize
    /\ IF f.isRead THEN m_reader ELSE m_writer
    /\ ~C7_Busy(P)
C11_ZeroCapacity ==
    (ret.type = "value" /\ C11_Alone(ret.frame)) =>
        /\ (ret.frame.isRead /\ m_readBufferCap = 0) => ret.err = Err("ZeroReadBuffer")
        /\ (~ret.frame.isRead /\ m_writeBufferCap = 0) => ret.err = Err("ZeroWriteBuffer")
        /\ (~ret.frame.isRead /\ m_writeBufferCap > 0) => ret.err.cause # "ZeroWriteBuffer"
        /\ (ret.frame.reqSize > 0 /\ ret.frame.bytes = 0) => ret.err # OK

\* C12: addSectionSpan at a virtual offset that is already a key changes
\* neither the span count, nor size(), nor the span stored at that key; and no
\* step removes or alters a span that is registered.
C12_IsAdd == Idle /\ ret'.type = "none" /\ ret'.frame.kind = "add"
C12_Called == SectionSpan(ret.frame.what, ret.frame.address, ret.frame.size)
C12_Preserved ==
    \A v \in Views : \A k \in DOMAIN m_spans[v] :
        k \in DOMAIN m_spans'[v] /\ m_spans'[v][k] = m_spans[v][k]
C12_NoOp ==
    (C12_IsAdd /\ ret'.frame.key \in DOMAIN m_spans[ret'.frame.sec]) =>
        LET v == ret'.frame.sec IN
        /\ Cardinality(DOMAIN m_spans'[v]) = Cardinality(DOMAIN m_spans[v])
        /\ ViewSection_size(m_spans'[v]) = ViewSection_size(m_spans[v])
        /\ m_spans'[v][ret'.frame.key] = m_spans[v][ret'.frame.key]
C12_FirstRegistrationWins == [][C12_Preserved /\ C12_NoOp]_vars
C12_Witness ==
    /\ Idle
    /\ ret.frame.kind = "add"
    /\ ret.frame.sec = V
    /\ ret.frame.key \in DOMAIN m_spans[V]
    /\ m_spans[V][ret.frame.key] # C12_Called
    /\ Cardinality(DOMAIN m_spans[V]) = 2

\* C13: size() of a view is 0 without spans, and otherwise the end of the span
\* with the greatest key minus the least key; a span of length 1 at 0 followed
\* by a span of length 2 at offset 1 gives 3 (the 10 / 20 / 30 example, scaled).
C13_Example(sp) ==
    /\ DOMAIN sp = {0, 1}
    /\ sp[0].size = 1
    /\ sp[1].size = 2
C13_ViewSize ==
    \A v \in Views :
        LET keys == DOMAIN m_spans[v] IN
        /\ keys = {} => Size(v) = 0
        /\ \A lo, hi \in keys :
              ((\A k \in keys : lo <= k /\ k <= hi) =>
                  Size(v) = (hi + m_spans[v][hi].size) - lo)
        /\ C13_Example(m_spans[v]) => Size(v) = 3
C13_Witness ==
    /\ C13_Example(m_spans[V])
    /\ Idle
    /\ ret.frame.kind = "add"
    /\ ret.frame.key = 1

\* C14: a fault raised while a view resolves a span's section id (an unknown
\* id) or by the section it delegated to never leaves the view: the view call
\* returns an error value that names the section id of the span it was
\* serving, and the view's being-accessed flag is false once it has returned.
C14_SpanId(f, k) == m_spans[f.sec][k].sectionId
C14_Caught ==
    /\ ret.type = "throw" => ~(IsCall(ret.frame) /\ ret.frame.sec \in Views)
    /\ \A v \in Views :
          (ReturnedFrom(v) /\ ret.err.cause = "MappedFault" /\ Depth = 0) =>
              ~m_isBeingAccessed[v]
C14_Delegated ==
    (Returned /\ ret.type = "throw" /\ IsCall(Top) /\ Top.sec \in Views) =>
        /\ Depth' = Depth - 1
        /\ ret' = Value(ErrAt("MappedFault", C14_SpanId(Top, Top.key)), Top)
        /\ ~m_isBeingAccessed'[Top.sec]
C14_Unresolved ==
    (Running /\ IsCall(Top) /\ Top.sec \in Views /\ Top.pc = "loop" /\ Top.size > 0
        /\ HasFloor(m_spans[Top.sec], Top.address)
        /\ C14_SpanId(Top, FloorKey(m_spans[Top.sec], Top.address)) \notin registry) =>
        /\ Depth' = Depth - 1
        /\ ret' = Value(ErrAt("MappedFault",
                               C14_SpanId(Top, FloorKey(m_spans[Top.sec], Top.address))), Top)
        /\ ~m_isBeingAccessed'[Top.sec]
C14_FaultConversion == [](C14_Caught) /\ [][C14_Delegated /\ C14_Unresolved]_vars
C14_Witness ==
    /\ Depth = 0
    /\ ReturnedFrom(V)
    /\ ret.err = ErrAt("MappedFault", M)
    /\ ret.frame.pc = "sub"
    /\ ~m_isBeingAccessed[V]

\* C15: InMemorySection::resize(n) with n above the maximum returns an error
\* and leaves the buffer as it was, size and content; with n at or below the
\* maximum it returns success and size() is n.
C15_Resized == Idle /\ ret'.type = "value" /\ ret'.frame.kind = "resize"
C15_Step ==
    C15_Resized =>
        IF ret'.frame.size > MaxSize
        THEN ret'.err # OK /\ m_buffer' = m_buffer
        ELSE ret'.err = OK /\ Len(m_buffer') = ret'.frame.size
C15_State ==
    (ret.type = "value" /\ ret.frame.kind = "resize") =>
        /\ ret.err = OK <=> ret.frame.size <= MaxSize
        /\ ret.err = OK => Size(M) = ret.frame.size
C15_ResizeLimit == [](C15_State) /\ [][C15_Step]_vars
C15_Witness ==
    /\ ret.type = "value"
    /\ ret.frame.kind = "resize"
    /\ ret.frame.size = MaxSize + 1
    /\ ret.err = Err("Expansion")
    /\ m_buffer = <<1, 1, 0>>

\* C16: with the view V holding the single span [0, S) -> M[0, S), S the size
\* of the InMemorySection, a read(0, S) through V hands its chunk callback the
\* S bytes the section holds, and a successful write(0, S) on the section has
\* left S bytes of the producer's value there (S = 2 and value 1 standing for
\* 16 bytes of 0xAA).
C16_View ==
    /\ Len(m_buffer) > 0
    /\ DOMAIN m_spans[V] = {0}
    /\ m_spans[V][0] = SectionSpan(M, 0, Len(m_buffer))
C16_Whole(f) == f.reqAddr = 0 /\ f.reqSize = Len(m_buffer)
C16_Reading ==
    /\ Depth = 3
    /\ Running
    /\ IsCall(stack[1]) /\ stack[1].sec = V /\ stack[1].isRead /\ C16_Whole(stack[1])
    /\ IsCall(stack[2]) /\ stack[2].sec = M
    /\ Top.kind = "user" /\ Top.what = "chunk" /\ Top.sec = M
C16_Read ==
    /\ (C16_View /\ C16_Reading) =>
          /\ Top.isRead
          /\ Len(InMemorySection_chunk(Top)) = Len(m_buffer)
          /\ InMemorySection_chunk(Top) = m_buffer
    /\ (C16_View /\ Depth = 0 /\ ReturnedFrom(V) /\ ret.frame.isRead
            /\ C16_Whole(ret.frame) /\ ret.err = OK) =>
          /\ ret.frame.address = Len(m_buffer)
          /\ ret.frame.size = 0
C16_Write ==
    (Running /\ Depth = 2 /\ Top.kind = "user" /\ Top.what = "chunk" /\ Top.sec = M
        /\ ~Top.isRead /\ C16_Whole(stack[1])
        /\ ret'.type = "value" /\ ret'.err = OK) =>
        \E val \in 0..MaxByte : m_buffer' = [i \in 1..Len(m_buffer) |-> val]
C16_RoundTrip == [](C16_Read) /\ [][C16_Write]_vars
C16_Witness ==
    /\ C16_View
    /\ C16_Reading
    /\ InMemorySection_chunk(Top) = <<1, 1>>

\* C17: every iteration of the loop of a ProviderSection or ViewSection call
\* that does not return leaves strictly less of the request remaining, so the
\* call returns after at most as many iterations as it has bytes.
C17_Iterates(i) ==
    /\ i <= Depth'
    /\ IsCall(stack[i])
    /\ stack[i].sec \in Views \cup {P}
    /\ stack[i].pc \in {"sub", "chunk", "ext"}
    /\ stack'[i].pc = "loop"
C17_Progress == \A i \in 1..Depth : C17_Iterates(i) => stack'[i].size < stack[i].size
C17_Termination == [][C17_Progress]_vars

\* C18: a sub-request a view delegates for a span lies within the source
\* range [sourceOffset, sourceOffset + length) the span aliases and within the
\* span's virtual range [key, key + length), and the sub-requests of one
\* access follow one another without gap or overlap from the requested address.
C18_Confinement ==
    \A i \in 1..Depth :
        Delegating(i) =>
            LET f == stack[i]
                span == m_spans[f.sec][f.key]
                sub == stack[i + 1]
            IN  /\ span.offset <= sub.reqAddr
                /\ sub.reqAddr + sub.reqSize <= span.offset + span.size
                /\ f.key <= f.address
                /\ f.address + f.chunk <= f.key + span.size
                /\ f.address + f.size = f.reqAddr + f.reqSize

\* C19: for a view whose spans follow one another without gap, a request of
\* nonzero length that lies within [0, size()) reaches a span lookup that
\* finds a covering span, and a request the bounds check turns away touches
\* an address no span covers - also when the first key is not 0.
C19_Contiguous(sp) ==
    /\ DOMAIN sp # {}
    /\ \A k \in DOMAIN sp :
          /\ sp[k].size > 0
          /\ k = LastKey(sp) \/ k + sp[k].size \in DOMAIN sp
C19_Covered(sp, a, n) == \A b \in a .. a + n - 1 : ~C8_Uncovered(sp, b)
C19_SizeMatchesRange ==
    /\ \A i \in 1..Depth :
          (IsCall(stack[i]) /\ stack[i].sec \in Views /\ stack[i].pc = "loop"
              /\ stack[i].address = stack[i].reqAddr /\ stack[i].reqSize > 0
              /\ C19_Contiguous(m_spans[stack[i].sec])) =>
              C19_Covered(m_spans[stack[i].sec], stack[i].reqAddr, stack[i].reqSize)
    /\ \A v \in Views :
          (ReturnedFrom(v) /\ ret.frame.pc = "entry" /\ ret.err = Err("OutOfBounds")
              /\ ret.frame.reqSize > 0 /\ C19_Contiguous(m_spans[v])) =>
              ~C19_Covered(m_spans[v], ret.frame.reqAddr, ret.frame.reqSize)

\* C20: addSectionSpan without atOffset registers a new span, at key 0 in an
\* empty view and otherwise at the end of the span with the greatest key; so
\* spans that start at 0 and follow one another without gap or overlap still
\* do after it, and size() has grown by the length registered.
C20_Packed(sp) ==
    DOMAIN sp # {} =>
        /\ 0 \in DOMAIN sp
        /\ \A k \in DOMAIN sp : k = LastKey(sp) \/ k + sp[k].size \in DOMAIN sp
        /\ \A j, k \in DOMAIN sp : j < k => j + sp[j].size <= k
C20_Append ==
    (C12_IsAdd /\ ret'.frame.key = nullopt) =>
        LET v == ret'.frame.sec
            sp == m_spans[v]
            at == IF DOMAIN sp = {} THEN 0 ELSE LastKey(sp) + sp[LastKey(sp)].size
        IN  /\ at \notin DOMAIN sp
            /\ DOMAIN m_spans'[v] = DOMAIN sp \cup {at}
            /\ Cardinality(DOMAIN m_spans'[v]) = Cardinality(DOMAIN sp) + 1
            /\ m_spans'[v][at] =
                  SectionSpan(ret'.frame.what, ret'.frame.address, ret'.frame.size)
            /\ C20_Packed(sp) =>
                  /\ C20_Packed(m_spans'[v])
                  /\ ViewSection_size(m_spans'[v]) = ViewSection_size(sp) + ret'.frame.size
C20_DefaultAppend == [][C20_Append]_vars

====
